---- MODULE Spec2Model ----
(***************************************************************************)
(* Word2Excel / Excel2Word: two command-line programs that copy a          *)
(* rectangular block of cells between a spreadsheet and a word-processor   *)
(* table.  src/Excel2Word.py exports a range of a workbook into a new      *)
(* document table; src/Word2Excel.py imports a document table into a       *)
(* range of a workbook and formats the range.                              *)
(*                                                                         *)
(* Text is a sequence of one-character strings.  Python's None is the      *)
(* record None; every other Python object is a record too, so that         *)
(* "x is None" is the comparison x = None.                                 *)
(***************************************************************************)
EXTENDS Integers, Sequences, FiniteSets, TLC

VARIABLES
    prog,        \* which program runs: "col" (parse_col_arg alone), "export", "import"
    pc,          \* position of the running program in its main()
    args,        \* the parsed command line (argparse namespace)
    fs,          \* the files: excel (export source), word (export output,
                 \* import source), excel_out (import destination)
    fs0,         \* the files as they were when the current run started
    c1, c2,      \* main(): the parsed column numbers
    data,        \* Excel2Word.main: the grid read from the sheet
    table_data,  \* Word2Excel.main: the grid read from the table
    wb, ws,      \* main(): the open workbook and the title of the chosen sheet
    doc,         \* Excel2Word.main: the document being built
    stdout,      \* messages printed on standard output
    stderr,      \* tracebacks of uncaught exceptions
    exit,        \* process exit status; Running until the process ends
    log,         \* the phases the run has performed, in order
    prev,        \* the finished export a following import reads from, or None
    tok, res     \* parse_col_arg alone: its argument and its result

vars == <<prog, pc, args, fs, fs0, c1, c2, data, table_data, wb, ws, doc,
          stdout, stderr, exit, log, prev, tok, res>>

None == [py |-> "None"]
Running == -1

\* ------------------------------------------------------------------ bounds
MaxRow == 2       \* rows of a sheet the model looks at; row arguments are 0..MaxRow
MaxCol == 3       \* columns of a sheet the model looks at
MaxTokLen == 4    \* longest column token given to parse_col_arg alone

\* ------------------------------------------------------------------ text
UpperLetters == <<"A","B","C","D","E","F","G","H","I","J","K","L","M",
                  "N","O","P","Q","R","S","T","U","V","W","X","Y","Z">>
LowerLetters == <<"a","b","c","d","e","f","g","h","i","j","k","l","m",
                  "n","o","p","q","r","s","t","u","v","w","x","y","z">>
DigitChars == <<"0","1","2","3","4","5","6","7","8","9">>
\* "nbsp" is U+00A0, "lf" is a line feed; both are whitespace to str.split/strip
WhiteSpace == {" ", "nbsp", "lf"}

Range(s) == {s[k] : k \in 1..Len(s)}
IndexOf(s, ch) == CHOOSE k \in 1..Len(s) : s[k] = ch

RECURSIVE LStrip(_)
LStrip(x) == IF x # <<>> /\ Head(x) \in WhiteSpace THEN LStrip(Tail(x)) ELSE x

RECURSIVE RStrip(_)
RStrip(x) ==
    IF x # <<>> /\ x[Len(x)] \in WhiteSpace THEN RStrip(SubSeq(x, 1, Len(x) - 1)) ELSE x

\* str.strip()
Strip(x) == RStrip(LStrip(x))

\* str.isdigit(): non-empty and every character a digit
IsDigit(x) == Len(x) > 0 /\ \A k \in 1..Len(x) : x[k] \in Range(DigitChars)

\* int(x) of a digit string
RECURSIVE PyInt(_)
PyInt(x) ==
    IF x = <<>> THEN 0
    ELSE 10 * PyInt(SubSeq(x, 1, Len(x) - 1)) + (IndexOf(DigitChars, x[Len(x)]) - 1)

\* str.upper()
Upper(x) ==
    [k \in 1..Len(x) |->
        IF x[k] \in Range(LowerLetters) THEN UpperLetters[IndexOf(LowerLetters, x[k])]
        ELSE x[k]]

\* str(n) of an integer
RECURSIVE StrNat(_)
StrNat(n) == IF n < 10 THEN <<DigitChars[n + 1]>>
             ELSE StrNat(n \div 10) \o <<DigitChars[(n % 10) + 1]>>

\* ------------------------------------------------- the column normalizer
\* A call either returns a value or raises.
Return(v) == [ok |-> TRUE, val |-> v]
Raise(e) == [ok |-> FALSE, val |-> e]

\* openpyxl.utils.column_index_from_string: one to three letters A..Z, read in
\* base 26 with A = 1; anything else raises ValueError.
RECURSIVE LettersValue(_)
LettersValue(s) ==
    IF s = <<>> THEN 0
    ELSE 26 * LettersValue(SubSeq(s, 1, Len(s) - 1)) + IndexOf(UpperLetters, s[Len(s)])

column_index_from_string(s) ==
    IF Len(s) \in 1..3 /\ \A k \in 1..Len(s) : s[k] \in Range(UpperLetters)
    THEN Return(LettersValue(s))
    ELSE Raise("ValueError")

\* parse_col_arg without the .upper() of line 29 / 37
parse_col_arg_NoUpper(x0) ==
    LET x == Strip(x0) IN
    IF IsDigit(x)
    THEN LET val == PyInt(x) IN
         IF val < 1 THEN Raise("ValueError") ELSE Return(val)
    ELSE column_index_from_string(x)

parse_col_arg(x0) ==
    LET x == Strip(x0) IN
    IF IsDigit(x)
    THEN LET val == PyInt(x) IN
         IF val < 1 THEN Raise("ValueError") ELSE Return(val)
    ELSE column_index_from_string(Upper(x))

\* ------------------------------------------------------- Python values
\* A cell value: None, a str or an int.
TextVal(s) == [t |-> "str", s |-> s, n |-> 0]
IntVal(n) == [t |-> "int", s |-> <<>>, n |-> n]

\* str(val)
PyStr(v) == IF v.t = "str" THEN v.s
            ELSE IF v.n < 0 THEN <<"-">> \o StrNat(0 - v.n) ELSE StrNat(v.n)

\* " ".join(parts)
RECURSIVE Join(_)
Join(parts) ==
    IF parts = <<>> THEN <<>>
    ELSE IF Len(parts) = 1 THEN parts[1]
    ELSE parts[1] \o <<" ">> \o Join(Tail(parts))

\* str.split(): the maximal runs of non-whitespace characters, in order
RECURSIVE Split(_)
Split(x) ==
    LET y == LStrip(x) IN
    IF y = <<>> THEN <<>>
    ELSE LET stop == IF \E k \in 1..Len(y) : y[k] \in WhiteSpace
                     THEN (CHOOSE k \in 1..Len(y) :
                              /\ y[k] \in WhiteSpace
                              /\ \A m \in 1..(k - 1) : y[m] \notin WhiteSpace) - 1
                     ELSE Len(y)
         IN <<SubSeq(y, 1, stop)>> \o Split(SubSeq(y, stop + 1, Len(y)))

\* str.replace("\xa0", " ")
ReplaceNbsp(x) == [k \in 1..Len(x) |-> IF x[k] = "nbsp" THEN " " ELSE x[k]]

\* ------------------------------------------------------------ openpyxl
Pos == (1..MaxRow) \X (1..MaxCol)

Side(style, color) == [style |-> style, color |-> color]
NoStyle == Side("none", "none")                 \* Side(): a side with no line
Border(l, r, t, b) == [left |-> l, right |-> r, top |-> t, bottom |-> b]
DEFAULT_BORDER == Border(NoStyle, NoStyle, NoStyle, NoStyle)
Alignment(wrap, vert) == [wrap_text |-> wrap, vertical |-> vert]
DEFAULT_ALIGNMENT == Alignment(FALSE, "default")

Cell(v, a, b) == [value |-> v, alignment |-> a, border |-> b]
\* the cell ws.cell() creates where the sheet holds none
BlankCell == Cell(None, DEFAULT_ALIGNMENT, DEFAULT_BORDER)

Worksheet(cells) == [kind |-> "worksheet", cells |-> cells]
\* a chart sheet has no cells and no cell() method
Chartsheet == [kind |-> "chartsheet", cells |-> [p \in Pos |-> BlankCell]]

\* Workbook(): one empty worksheet titled "Sheet", which is the active one
NewWorkbook ==
    [sheetnames |-> <<"Sheet">>, active |-> "Sheet",
     sheets |-> [n \in {"Sheet"} |-> Worksheet([p \in Pos |-> BlankCell])]]

\* ---------------------------------------------------------- python-docx
\* A table cell is its paragraphs; _Cell.text joins them with line feeds and
\* assigning _Cell.text leaves one paragraph holding the text.
RECURSIVE JoinLines(_)
JoinLines(ps) ==
    IF ps = <<>> THEN <<>>
    ELSE IF Len(ps) = 1 THEN ps[1]
    ELSE ps[1] \o <<"lf">> \o JoinLines(Tail(ps))

CellText(cell) == JoinLines(cell)
SetCellText(text) == <<text>>

Table(style, alignment, rows) == [style |-> style, alignment |-> alignment, rows |-> rows]
\* Document(): the default template, which holds no table
NewDocument == [font |-> "default", paragraphs |-> <<>>, tables |-> <<>>]

\* ---------------------------------------------------------------- files
Missing == [st |-> "missing", content |-> None]
File(content) == [st |-> "ok", content |-> content]
\* a file that exists and that the library fails to open
Unreadable(content) == [st |-> "unreadable", content |-> content]

\* ----------------------------------------------------------- the inputs
MaxSeed == 1      \* single-sheet workbooks differ by a seed in 0..MaxSeed

Thin == Side("thin", "000000")
Medium == Side("medium", "FF0000")

\* what a cell of an existing workbook may be: never set, a value with no
\* border, a partial border, a border whose sides the file leaves out (read
\* as None), a full border of another style
CellPool ==
    << BlankCell,
       Cell(TextVal(<<"o","l","d">>), DEFAULT_ALIGNMENT, DEFAULT_BORDER),
       Cell(TextVal(<<"a"," "," ","b">>), Alignment(FALSE, "center"),
            Border(Thin, NoStyle, NoStyle, NoStyle)),
       Cell(IntVal(7), DEFAULT_ALIGNMENT, Border(None, None, None, None)),
       Cell(TextVal(<<" ","x","nbsp">>), Alignment(TRUE, "top"),
            Border(Medium, Medium, Medium, Medium)) >>

PatternCells(seed) ==
    [p \in Pos |-> CellPool[((p[1] * MaxCol + p[2] + seed) % Len(CellPool)) + 1]]

WbOne(seed) ==
    [sheetnames |-> <<"Sheet">>, active |-> "Sheet",
     sheets |-> [n \in {"Sheet"} |-> Worksheet(PatternCells(seed))]]
WbTwo ==
    [sheetnames |-> <<"Sheet", "Data">>, active |-> "Sheet",
     sheets |-> [n \in {"Sheet", "Data"} |->
                   Worksheet(PatternCells(IF n = "Sheet" THEN 2 ELSE 3))]]
WbChart ==
    [sheetnames |-> <<"Chart1", "Data">>, active |-> "Chart1",
     sheets |-> [n \in {"Chart1", "Data"} |->
                   IF n = "Chart1" THEN Chartsheet ELSE Worksheet(PatternCells(4))]]

Workbooks == {WbOne(seed) : seed \in 0..MaxSeed} \cup {WbTwo, WbChart}
ExcelFiles == {Missing, Unreadable(WbTwo)} \cup {File(w) : w \in Workbooks}

\* tables of a document: irregular rows, no row at all, cells of several
\* paragraphs with spaces to collapse, one larger than any range, a row with
\* no cell, a first row shorter than the next
TIrregular ==
    Table("Normal", "LEFT",
          << << <<<<"x">>>>, <<<<"y">>>>, <<<<"z">>>> >>,
             << <<<<"1">>>>, <<<<"2">>>> >> >>)
TNoRows == Table("Normal", "LEFT", <<>>)
TSpaces ==
    Table("Normal", "LEFT",
          << << << <<" ","a","nbsp"," ","b">>, <<"c">> >> >> >>)
TBig ==
    Table("Table Grid", "CENTER",
          [i \in 1..(MaxRow + 1) |->
              [j \in 1..(MaxCol + 1) |-> << <<"r">> \o StrNat(i) \o <<"c">> \o StrNat(j) >>]])
TNoCells == Table("Normal", "LEFT", << <<>> >>)
TShortFirst ==
    Table("Normal", "LEFT",
          << << <<<<"x">>>> >>,
             << <<<<"1">>>>, <<<<"2">>>>, <<<<"3">>>> >> >>)

Doc(tables) == [font |-> "default", paragraphs |-> <<>>, tables |-> tables]
Documents == {Doc(<<>>), Doc(<<TIrregular, TNoRows>>), Doc(<<TBig, TShortFirst>>),
              Doc(<<TSpaces, TNoCells>>)}
WordFiles == {Missing, Unreadable(Doc(<<TIrregular>>))} \cup {File(d) : d \in Documents}

\* column tokens of the command line: a letter or a number for each column of
\* the sheet, zero, and a token that is neither
ColToken(n) == IF n % 2 = 1 THEN <<(IF n % 4 = 1 THEN UpperLetters ELSE LowerLetters)[n]>>
               ELSE StrNat(n)
ColTokens == {ColToken(n) : n \in 1..MaxCol} \cup {<<"0">>, <<"a", "1">>}
RowArgs == 0..MaxRow
\* --sheet: "" stands for the option left out (None and "" are both false);
\* some workbooks hold a sheet "Data" and some do not
SheetArgs == {"", "Data"}
TableIndexes == -1..2

\* ------------------------------------------------- printing and exiting
Error(msg) == [error |-> TRUE, msg |-> msg]
Info(msg) == [error |-> FALSE, msg |-> msg]

\* print(an error message); sys.exit(1)
Die(msg) ==
    /\ stdout' = Append(stdout, Error(msg))
    /\ exit' = 1
    /\ pc' = "exit"
    /\ UNCHANGED stderr

\* an exception no handler catches: the interpreter prints the traceback on
\* standard error and exits with status 1
Uncaught(exc) ==
    /\ stderr' = Append(stderr, exc)
    /\ exit' = 1
    /\ pc' = "exit"
    /\ UNCHANGED stdout

\* what a save that raises may leave at the path: the file as it was, or a
\* partly written one
AfterFailedSave(f) == {f, Unreadable(None)}

\* ------------------------------------------------------ Excel2Word.main
\* lines 50-53
E_CheckSource ==
    /\ prog = "export" /\ pc = "e_start"
    /\ IF fs.excel.st = "missing"
       THEN Die("excel_not_found") /\ UNCHANGED log
       ELSE /\ pc' = "e_cols"
            /\ log' = Append(log, "exists")
            /\ UNCHANGED <<stdout, stderr, exit>>
    /\ UNCHANGED <<prog, args, fs, fs0, c1, c2, data, table_data, wb, ws, doc, prev, tok, res>>

\* lines 56-61
E_ParseCols ==
    /\ prog = "export" /\ pc = "e_cols"
    /\ LET a == parse_col_arg(args.col_start)
           b == parse_col_arg(args.col_end)
       IN IF a.ok /\ b.ok
          THEN /\ c1' = a.val /\ c2' = b.val
               /\ pc' = "e_range"
               /\ log' = Append(log, "cols")
               /\ UNCHANGED <<stdout, stderr, exit>>
          ELSE Die("column_error") /\ UNCHANGED <<c1, c2, log>>
    /\ UNCHANGED <<prog, args, fs, fs0, data, table_data, wb, ws, doc, prev, tok, res>>

\* lines 63-69
E_CheckRange ==
    /\ prog = "export" /\ pc = "e_range"
    /\ LET r1 == args.row_start
           r2 == args.row_end
       IN IF r1 < 1 \/ r2 < 1
          THEN Die("row_below_1") /\ UNCHANGED log
          ELSE IF c1 > c2 \/ r1 > r2
          THEN Die("invalid_range") /\ UNCHANGED log
          ELSE /\ pc' = "e_open"
               /\ log' = Append(log, "range")
               /\ UNCHANGED <<stdout, stderr, exit>>
    /\ UNCHANGED <<prog, args, fs, fs0, c1, c2, data, table_data, wb, ws, doc, prev, tok, res>>

\* load_workbook(path): the workbook of a readable file, else an exception
load_workbook(f) == IF f.st = "ok" THEN Return(f.content) ELSE Raise("InvalidFileException")

SheetNames(w) == Range(w.sheetnames)

\* lines 72-80
E_Open ==
    /\ prog = "export" /\ pc = "e_open"
    /\ LET r == load_workbook(fs.excel) IN
       IF ~r.ok
       THEN Die("open_error") /\ UNCHANGED <<wb, ws, log>>
       ELSE IF args.sheet # "" /\ args.sheet \notin SheetNames(r.val)
       THEN Die("sheet_not_found") /\ UNCHANGED <<wb, ws, log>>   \* KeyError
       ELSE /\ wb' = r.val
            /\ ws' = IF args.sheet # "" THEN args.sheet ELSE r.val.active
            /\ pc' = "e_read"
            /\ log' = Append(log, "open_src")
            /\ UNCHANGED <<stdout, stderr, exit>>
    /\ UNCHANGED <<prog, args, fs, fs0, c1, c2, data, table_data, doc, prev, tok, res>>

\* the value of ws.cell(row=r, column=c) of a worksheet
CellValue(w, name, r, c) == w.sheets[name].cells[<<r, c>>].value

\* the reading loop with str(val) applied to None as well
ReadRange_NoNoneCheck(w, name, r1, r2, cc1, cc2) ==
    [i \in 1..(r2 - r1 + 1) |->
        [j \in 1..(cc2 - cc1 + 1) |->
            LET val == w.sheets[name].cells[<<r1 + i - 1, cc1 + j - 1>>].value
            IN IF val = None THEN <<"N", "o", "n", "e">> ELSE PyStr(val)]]

\* lines 86-93: the grid of the range, row by row
ReadRange(w, name, r1, r2, cc1, cc2) ==
    [i \in 1..(r2 - r1 + 1) |->
        [j \in 1..(cc2 - cc1 + 1) |->
            LET val == CellValue(w, name, r1 + i - 1, cc1 + j - 1)
            IN IF val = None THEN <<>> ELSE PyStr(val)]]

\* lines 82-93
E_Read ==
    /\ prog = "export" /\ pc = "e_read"
    /\ IF wb.sheets[ws].kind # "worksheet"
       THEN /\ stdout' = Append(stdout, Info("region"))
            /\ stderr' = Append(stderr, "AttributeError")
            /\ exit' = 1
            /\ pc' = "exit"
            /\ UNCHANGED <<data, log>>
       ELSE /\ stdout' = Append(stdout, Info("region"))
            /\ data' = ReadRange(wb, ws, args.row_start, args.row_end, c1, c2)
            /\ pc' = "e_build"
            /\ log' = Append(log, "read_src")
            /\ UNCHANGED <<stderr, exit>>
    /\ UNCHANGED <<prog, args, fs, fs0, c1, c2, table_data, wb, ws, doc, prev, tok, res>>

\* doc.add_table(rows, cols): a table of empty cells, appended to the document
add_table(d, rows, cols) ==
    [d EXCEPT !.tables =
        Append(@, Table("Normal", "LEFT", [i \in 1..rows |-> [j \in 1..cols |-> << <<>> >>]]))]

\* lines 97-108: the new document, its font, the heading and the empty table
E_Build ==
    /\ prog = "export" /\ pc = "e_build"
    /\ LET nrows == args.row_end - args.row_start + 1
           ncols == c2 - c1 + 1
           d0 == [NewDocument EXCEPT !.font = "Calibri 11",
                                     !.paragraphs = Append(@, "heading")]
           d1 == add_table(d0, nrows, ncols)
           t == Len(d1.tables)
       IN doc' = [d1 EXCEPT !.tables[t].alignment = "CENTER",
                            !.tables[t].style = "Table Grid"]
    /\ pc' = "e_fill"
    /\ log' = Append(log, "open_dst")
    /\ UNCHANGED <<prog, args, fs, fs0, c1, c2, data, table_data, wb, ws,
                   stdout, stderr, exit, prev, tok, res>>

\* lines 110-113: tbl.cell(i, j).text = data[i][j] for every i, j
FillTable(tbl, grid, nrows, ncols) ==
    [tbl EXCEPT !.rows =
        [i \in 1..nrows |-> [j \in 1..ncols |-> SetCellText(grid[i][j])]]]

E_Fill ==
    /\ prog = "export" /\ pc = "e_fill"
    /\ LET nrows == args.row_end - args.row_start + 1
           ncols == c2 - c1 + 1
           t == Len(doc.tables)
       IN doc' = [doc EXCEPT !.tables[t] = FillTable(@, data, nrows, ncols)]
    /\ pc' = "e_save"
    /\ log' = Append(log, "write")
    /\ UNCHANGED <<prog, args, fs, fs0, c1, c2, data, table_data, wb, ws,
                   stdout, stderr, exit, prev, tok, res>>

\* lines 115-120: doc.save(out_path); an exception is caught by the handler
E_Save ==
    /\ prog = "export" /\ pc = "e_save"
    /\ \/ /\ fs' = [fs EXCEPT !.word = File(doc)]
          /\ stdout' = Append(stdout, Info("written"))
          /\ exit' = 0
          /\ pc' = "exit"
          /\ log' = Append(log, "save")
          /\ UNCHANGED stderr
       \/ /\ \E f \in AfterFailedSave(fs.word) : fs' = [fs EXCEPT !.word = f]
          /\ Die("write_error")
          /\ log' = Append(log, "save_failed")
    /\ UNCHANGED <<prog, args, fs0, c1, c2, data, table_data, wb, ws, doc, prev, tok, res>>

\* ------------------------------------------------------ Word2Excel.main
\* line 42 without the split and join
CollapseSpaces_ReplaceOnly(text) == ReplaceNbsp(text)

\* line 42: " ".join(cell.text.replace("\xa0", " ").split())
CollapseSpaces(text) == Join(Split(ReplaceNbsp(text)))

\* lines 32-45
read_table_from_word(f, table_index) ==
    IF f.st # "ok" THEN Raise("PackageNotFoundError")
    ELSE IF table_index < 0 \/ table_index >= Len(f.content.tables) THEN Raise("IndexError")
    ELSE LET rows == f.content.tables[table_index + 1].rows IN
         Return([i \in 1..Len(rows) |->
                    [j \in 1..Len(rows[i]) |-> CollapseSpaces(CellText(rows[i][j]))]])

\* lines 48-55
ensure_workbook(f) ==
    IF f.st # "missing"
    THEN LET r == load_workbook(f) IN IF r.ok THEN r.val ELSE NewWorkbook
    ELSE NewWorkbook

\* max(S) of a non-empty set of numbers
PyMax(S) == CHOOSE m \in S : \A n \in S : n <= m
Min(a, b) == IF a <= b THEN a ELSE b

\* lines 94-95
RowsWord(grid) == Len(grid)
ColsWord(grid) == PyMax({Len(grid[i]) : i \in 1..Len(grid)})

\* lines 108-110
Align == Alignment(TRUE, "top")
BorderStyle == Border(Thin, Thin, Thin, Thin)

\* openpyxl's check on a str given as a cell value: cut at 32767 characters
check_string(text) == SubSeq(text, 1, Min(Len(text), 32767))

\* the copying loop over the whole table, not clamped to the target range
WriteCells_Unclamped(cells, grid, r1, cc1, rows_to_write, cols_to_write) ==
    [p \in Pos |->
        LET i == p[1] - r1
            j == p[2] - cc1
        IN IF i \in 0..(Len(grid) - 1) /\ j \in 0..(PyMax({Len(grid[k]) : k \in 1..Len(grid)}) - 1)
           THEN LET val == IF j < Len(grid[i + 1]) THEN grid[i + 1][j + 1] ELSE <<>>
                IN Cell(TextVal(val), Alignment(TRUE, "top"), Border(Thin, Thin, Thin, Thin))
           ELSE cells[p]]

\* the copying loop running one row and one column too far
WriteCells_OneMore(cells, grid, r1, cc1, rows_to_write, cols_to_write) ==
    [p \in Pos |->
        LET i == p[1] - r1
            j == p[2] - cc1
        IN IF i \in 0..rows_to_write /\ j \in 0..cols_to_write
           THEN LET val == IF i < Len(grid) /\ j < Len(grid[i + 1])
                           THEN grid[i + 1][j + 1] ELSE <<>>
                IN Cell(TextVal(val), Alignment(TRUE, "top"), Border(Thin, Thin, Thin, Thin))
           ELSE cells[p]]

\* lines 115-122: the cells of the sheet after the copying loop
WriteCells(cells, grid, r1, cc1, rows_to_write, cols_to_write) ==
    [p \in Pos |->
        LET i == p[1] - r1
            j == p[2] - cc1
        IN IF i \in 0..(rows_to_write - 1) /\ j \in 0..(cols_to_write - 1)
           THEN LET val == IF j < Len(grid[i + 1]) THEN grid[i + 1][j + 1] ELSE <<>>
                IN Cell(TextVal(check_string(val)), Align, BorderStyle)
           ELSE cells[p]]

\* lines 125-130: the cells of the sheet after the formatting loop
FormatCells(cells, r1, r2, cc1, cc2) ==
    [p \in Pos |->
        IF p[1] \in r1..r2 /\ p[2] \in cc1..cc2
        THEN LET cell == cells[p] IN
             [cell EXCEPT !.border = IF cell.border = None \/ cell.border.left = None
                                     THEN BorderStyle ELSE @,
                          !.alignment = Align]
        ELSE cells[p]]

\* lines 70-73
I_CheckSource ==
    /\ prog = "import" /\ pc = "i_start"
    /\ IF fs.word.st = "missing"
       THEN Die("word_not_found") /\ UNCHANGED log
       ELSE /\ pc' = "i_cols"
            /\ log' = Append(log, "exists")
            /\ UNCHANGED <<stdout, stderr, exit>>
    /\ UNCHANGED <<prog, args, fs, fs0, c1, c2, data, table_data, wb, ws, doc, prev, tok, res>>

\* lines 75-80
I_ParseCols ==
    /\ prog = "import" /\ pc = "i_cols"
    /\ LET a == parse_col_arg(args.col_start)
           b == parse_col_arg(args.col_end)
       IN IF a.ok /\ b.ok
          THEN /\ c1' = a.val /\ c2' = b.val
               /\ pc' = "i_range"
               /\ log' = Append(log, "cols")
               /\ UNCHANGED <<stdout, stderr, exit>>
          ELSE Die("column_error") /\ UNCHANGED <<c1, c2, log>>
    /\ UNCHANGED <<prog, args, fs, fs0, data, table_data, wb, ws, doc, prev, tok, res>>

\* the range check without the order of the rows
I_CheckRange_NoRowOrder ==
    /\ prog = "import" /\ pc = "i_range"
    /\ IF args.row_start < 1 \/ c1 < 1 \/ c2 < c1
       THEN Die("invalid_range") /\ UNCHANGED log
       ELSE /\ pc' = "i_read"
            /\ log' = Append(log, "range")
            /\ UNCHANGED <<stdout, stderr, exit>>
    /\ UNCHANGED <<prog, args, fs, fs0, c1, c2, data, table_data, wb, ws, doc, prev, tok, res>>

\* lines 82-85
I_CheckRange ==
    /\ prog = "import" /\ pc = "i_range"
    /\ LET r1 == args.row_start
           r2 == args.row_end
       IN IF r1 < 1 \/ r2 < r1 \/ c1 < 1 \/ c2 < c1
          THEN Die("invalid_range") /\ UNCHANGED log
          ELSE /\ pc' = "i_read"
               /\ log' = Append(log, "range")
               /\ UNCHANGED <<stdout, stderr, exit>>
    /\ UNCHANGED <<prog, args, fs, fs0, c1, c2, data, table_data, wb, ws, doc, prev, tok, res>>

\* lines 88-92
I_Read ==
    /\ prog = "import" /\ pc = "i_read"
    /\ LET r == read_table_from_word(fs.word, args.table_index) IN
       IF r.ok
       THEN /\ table_data' = r.val
            /\ pc' = "i_dims"
            /\ log' = log \o <<"open_src", "read_src">>
            /\ UNCHANGED <<stdout, stderr, exit>>
       ELSE Die("word_read_error") /\ UNCHANGED <<table_data, log>>
    /\ UNCHANGED <<prog, args, fs, fs0, c1, c2, data, wb, ws, doc, prev, tok, res>>

\* lines 94-96: max() of no rows raises ValueError, outside every handler
I_Dims ==
    /\ prog = "import" /\ pc = "i_dims"
    /\ IF table_data = <<>>
       THEN Uncaught("ValueError")
       ELSE /\ stdout' = Append(stdout, Info("table_size"))
            /\ pc' = "i_open"
            /\ UNCHANGED <<stderr, exit>>
    /\ UNCHANGED <<prog, args, fs, fs0, c1, c2, data, table_data, wb, ws, doc, log,
                   prev, tok, res>>

\* opening the destination with a failed load reported as an error
I_Open_NoFallback ==
    /\ prog = "import" /\ pc = "i_open"
    /\ IF fs.excel_out.st = "unreadable"
       THEN Die("open_error") /\ UNCHANGED <<wb, ws, log>>
       ELSE /\ wb' = IF fs.excel_out.st = "ok" THEN fs.excel_out.content ELSE NewWorkbook
            /\ ws' = IF args.sheet # "" /\ args.sheet \in Range(wb'.sheetnames)
                     THEN args.sheet ELSE wb'.active
            /\ pc' = "i_write"
            /\ log' = Append(log, "open_dst")
            /\ UNCHANGED <<stdout, stderr, exit>>
    /\ UNCHANGED <<prog, args, fs, fs0, c1, c2, data, table_data, doc, prev, tok, res>>

\* lines 99-100
I_Open ==
    /\ prog = "import" /\ pc = "i_open"
    /\ LET w == ensure_workbook(fs.excel_out) IN
       /\ wb' = w
       /\ ws' = IF args.sheet # "" /\ args.sheet \in SheetNames(w)
                THEN args.sheet ELSE w.active
    /\ pc' = "i_write"
    /\ log' = Append(log, "open_dst")
    /\ UNCHANGED <<prog, args, fs, fs0, c1, c2, data, table_data, doc,
                   stdout, stderr, exit, prev, tok, res>>

\* lines 102-122
I_Write ==
    /\ prog = "import" /\ pc = "i_write"
    /\ LET nrows_target == args.row_end - args.row_start + 1
           ncols_target == c2 - c1 + 1
           rows_to_write == Min(RowsWord(table_data), nrows_target)
           cols_to_write == Min(ColsWord(table_data), ncols_target)
       IN /\ stdout' = Append(stdout, Info("writing"))
          /\ IF wb.sheets[ws].kind # "worksheet" /\ rows_to_write > 0 /\ cols_to_write > 0
             THEN /\ stderr' = Append(stderr, "AttributeError")
                  /\ exit' = 1
                  /\ pc' = "exit"
                  /\ UNCHANGED <<wb, log>>
             ELSE /\ wb' = [wb EXCEPT !.sheets[ws].cells =
                               WriteCells(@, table_data, args.row_start, c1,
                                          rows_to_write, cols_to_write)]
                  /\ pc' = "i_format"
                  /\ log' = Append(log, "write")
                  /\ UNCHANGED <<stderr, exit>>
    /\ UNCHANGED <<prog, args, fs, fs0, c1, c2, data, table_data, ws, doc, prev, tok, res>>

\* lines 125-130
I_Format ==
    /\ prog = "import" /\ pc = "i_format"
    /\ IF wb.sheets[ws].kind # "worksheet"
       THEN Uncaught("AttributeError") /\ UNCHANGED <<wb, log>>
       ELSE /\ wb' = [wb EXCEPT !.sheets[ws].cells =
                         FormatCells(@, args.row_start, args.row_end, c1, c2)]
            /\ pc' = "i_save"
            /\ log' = Append(log, "format")
            /\ UNCHANGED <<stdout, stderr, exit>>
    /\ UNCHANGED <<prog, args, fs, fs0, c1, c2, data, table_data, ws, doc, prev, tok, res>>

\* the last step reporting success without the call of wb.save
I_Save_NoSave ==
    /\ prog = "import" /\ pc = "i_save"
    /\ stdout' = Append(stdout, Info("written"))
    /\ exit' = 0
    /\ pc' = "exit"
    /\ UNCHANGED <<prog, args, fs, fs0, c1, c2, data, table_data, wb, ws, doc, stderr, log,
                   prev, tok, res>>

\* lines 133-135: wb.save(path) is called outside every handler
I_Save ==
    /\ prog = "import" /\ pc = "i_save"
    /\ \/ /\ fs' = [fs EXCEPT !.excel_out = File(wb)]
          /\ stdout' = Append(stdout, Info("written"))
          /\ exit' = 0
          /\ pc' = "exit"
          /\ log' = Append(log, "save")
          /\ UNCHANGED stderr
       \/ /\ \E f \in AfterFailedSave(fs.excel_out) : fs' = [fs EXCEPT !.excel_out = f]
          /\ Uncaught("OSError")
          /\ log' = Append(log, "save_failed")
    /\ UNCHANGED <<prog, args, fs0, c1, c2, data, table_data, wb, ws, doc, prev, tok, res>>

\* ------------------------------------------------------------ the runs
Idle ==
    /\ c1 = 0 /\ c2 = 0
    /\ data = <<>> /\ table_data = <<>>
    /\ wb = None /\ ws = "" /\ doc = None
    /\ stdout = <<>> /\ stderr = <<>>
    /\ exit = Running
    /\ log = <<>>

ExportArgs ==
    [sheet : SheetArgs, row_start : RowArgs, row_end : RowArgs,
     col_start : ColTokens, col_end : ColTokens]
ImportArgs ==
    [table_index : TableIndexes, sheet : SheetArgs, row_start : RowArgs,
     row_end : RowArgs, col_start : ColTokens, col_end : ColTokens]

\* python Excel2Word.py --excel ... --word-out ...
InitExport ==
    /\ prog = "export" /\ pc = "e_start"
    /\ args \in ExportArgs
    /\ fs \in [excel : ExcelFiles, word : {Missing, File(Doc(<<TIrregular>>))},
               excel_out : {Missing}]
    /\ fs0 = fs
    /\ prev = None /\ tok = <<>> /\ res = None
    /\ Idle

\* python Word2Excel.py --word-in ... --excel-out ...
InitImport ==
    /\ prog = "import" /\ pc = "i_start"
    /\ args \in ImportArgs
    /\ fs \in [excel : {Missing}, word : WordFiles, excel_out : ExcelFiles]
    /\ fs0 = fs
    /\ prev = None /\ tok = <<>> /\ res = None
    /\ Idle

\* After an export that succeeded, an import of table 0 of the document it
\* wrote, into a range of the same dimensions of the file given as
\* --excel-out, whatever that file is.
StartImport ==
    /\ prog = "export" /\ pc = "exit" /\ exit = 0
    /\ \E a \in ImportArgs :
          /\ a.table_index = 0
          /\ a.row_start >= 1
          /\ a.row_end - a.row_start = args.row_end - args.row_start
          /\ parse_col_arg(a.col_start).ok /\ parse_col_arg(a.col_end).ok
          /\ parse_col_arg(a.col_end).val - parse_col_arg(a.col_start).val = c2 - c1
          /\ args' = a
    /\ prev' = [args |-> args, ws |-> ws, c1 |-> c1, c2 |-> c2]
    /\ prog' = "import" /\ pc' = "i_start"
    /\ \E f \in ExcelFiles : fs' = [fs EXCEPT !.excel_out = f]
    /\ fs0' = fs'
    /\ c1' = 0 /\ c2' = 0
    /\ data' = <<>> /\ table_data' = <<>>
    /\ wb' = None /\ ws' = "" /\ doc' = None
    /\ stdout' = <<>> /\ stderr' = <<>>
    /\ exit' = Running
    /\ log' = <<>>
    /\ UNCHANGED <<tok, res>>

Init == InitImport \/ InitExport

Next ==
    \/ E_CheckSource \/ E_ParseCols \/ E_CheckRange \/ E_Open
    \/ E_Read \/ E_Build \/ E_Fill \/ E_Save
    \/ I_CheckSource \/ I_ParseCols \/ I_CheckRange \/ I_Read \/ I_Dims
    \/ I_Open \/ I_Write \/ I_Format \/ I_Save
    \/ StartImport

Spec == Init /\ [][Next]_vars

\* ------------------------------------------- parse_col_arg on its own
TokChars == {"0", "1", "2", "A", "a", "Z", "z", "b", " ", "-"}
Tokens == UNION {[1..n -> TokChars] : n \in 0..MaxTokLen}

ColInit ==
    /\ prog = "col" /\ pc = "call"
    /\ tok \in Tokens
    /\ res = None
    /\ args = None /\ fs = None /\ fs0 = None /\ prev = None
    /\ Idle

ParseCol ==
    /\ prog = "col" /\ pc = "call"
    /\ res' = parse_col_arg(tok)
    /\ pc' = "returned"
    /\ UNCHANGED <<prog, args, fs, fs0, c1, c2, data, table_data, wb, ws, doc,
                   stdout, stderr, exit, log, prev, tok>>

ColNext == ParseCol

SpecCol == ColInit /\ [][ColNext]_vars

\* =============================================================== claims
ImportDone == prog = "import" /\ pc = "exit" /\ exit = 0
ExportDone == prog = "export" /\ pc = "exit" /\ exit = 0
InRange(p) == p[1] \in args.row_start..args.row_end /\ p[2] \in c1..c2
\* the cells of the chosen sheet in the saved destination workbook
SavedCells == fs.excel_out.content.sheets[ws].cells
\* the workbook an import starts from: the destination file's when it can be
\* read, an empty one when the file is missing or cannot be read
OpenedWorkbook == IF fs0.excel_out.st = "ok" THEN fs0.excel_out.content ELSE NewWorkbook
HasThinSide(side) == side # None /\ side.style = "thin"

\* ---- C1
\* C1: after a successful import every cell of the whole target range has
\* wrap-text on, vertical alignment top and a thin border on all four sides,
\* whatever the table size and the destination sheet held before.
C1_WholeRangeBordered ==
    ImportDone =>
        \A p \in Pos : InRange(p) =>
            LET cell == SavedCells[p] IN
            /\ cell.alignment.wrap_text = TRUE
            /\ cell.alignment.vertical = "top"
            /\ cell.border # None
            /\ HasThinSide(cell.border.left) /\ HasThinSide(cell.border.right)
            /\ HasThinSide(cell.border.top) /\ HasThinSide(cell.border.bottom)

\* ---- C2
\* the failures the programs detect before they save, read off the command
\* line and the files as the run found them
ColsBad == ~parse_col_arg(args.col_start).ok \/ ~parse_col_arg(args.col_end).ok
RangeBad ==
    /\ ~ColsBad
    /\ \/ args.row_start < 1 \/ args.row_end < 1
       \/ parse_col_arg(args.col_start).val < 1 \/ parse_col_arg(args.col_end).val < 1
       \/ args.row_start > args.row_end
       \/ parse_col_arg(args.col_start).val > parse_col_arg(args.col_end).val
ExportFailsEarly ==
    \/ fs0.excel.st = "missing"
    \/ ColsBad \/ RangeBad
    \/ fs0.excel.st = "unreadable"
    \/ (fs0.excel.st = "ok" /\ args.sheet # ""
        /\ \A k \in 1..Len(fs0.excel.content.sheetnames) :
              fs0.excel.content.sheetnames[k] # args.sheet)
    \/ (fs0.excel.st = "ok" /\ args.sheet = ""
        /\ fs0.excel.content.sheets[fs0.excel.content.active].kind = "chartsheet")
ImportFailsEarly ==
    \/ fs0.word.st = "missing"
    \/ ColsBad \/ RangeBad
    \/ fs0.word.st = "unreadable"
    \/ (fs0.word.st = "ok"
        /\ (args.table_index < 0 \/ args.table_index > Len(fs0.word.content.tables) - 1))

\* C2: a run that fails before the save step (missing source, invalid column
\* token, a range value below 1, start after end, named sheet absent in export,
\* table index out of bounds in import, unreadable source or sheet) never saves: the
\* destination file is as the run found it and the exit status is not 0.
C2_NoSaveOnEarlyFailure ==
    /\ (prog = "export" /\ ExportFailsEarly) =>
          /\ fs.word = fs0.word
          /\ \A k \in 1..Len(log) : log[k] \notin {"save", "save_failed"}
          /\ exit # 0
          /\ pc = "exit" => exit >= 1
    /\ (prog = "import" /\ ImportFailsEarly) =>
          /\ fs.excel_out = fs0.excel_out
          /\ \A k \in 1..Len(log) : log[k] \notin {"save", "save_failed"}
          /\ exit # 0
          /\ pc = "exit" => exit >= 1

C2_Witness ==
    /\ prog = "import" /\ pc = "exit" /\ exit = 1
    /\ ~ColsBad /\ args.row_start > args.row_end /\ args.row_end >= 1
    /\ fs0.word.st = "ok" /\ fs.excel_out.st = "ok"

\* ---- C3
NumErrors == Cardinality({k \in 1..Len(stdout) : stdout[k].error})

\* C3: every failure at any stage is caught, reported exactly once as a message
\* on standard output and ends the process with status 1; no exception escapes.
C3_EveryFailureReported ==
    (pc = "exit" /\ exit # 0) =>
        /\ exit = 1
        /\ stderr = <<>>
        /\ NumErrors = 1

\* ---- C4
\* the sheet an export reads: the named one, else the active one
SourceSheet(a) == IF a.sheet # "" THEN a.sheet ELSE fs.excel.content.active
\* the textual form of a cell value; the empty text for an absent value
TextOf(v) == IF v = None THEN <<>> ELSE PyStr(v)

\* C4: a successful export writes a document whose table has exactly
\* r2-r1+1 rows and c2-c1+1 columns, and cell (i, j) of the table holds the
\* textual form of source cell (r1+i, c1+j), the empty text for an absent one.
C4_ExportTable ==
    ExportDone =>
        /\ fs.word.st = "ok"
        /\ Len(fs.word.content.tables) = 1
        /\ LET rows == fs.word.content.tables[1].rows
               r1 == args.row_start
               r2 == args.row_end
               k1 == parse_col_arg(args.col_start).val
               k2 == parse_col_arg(args.col_end).val
               src == fs0.excel.content.sheets[SourceSheet(args)].cells
           IN /\ Len(rows) = r2 - r1 + 1
              /\ \A i \in 0..(r2 - r1) :
                    /\ Len(rows[i + 1]) = k2 - k1 + 1
                    /\ \A j \in 0..(k2 - k1) :
                          CellText(rows[i + 1][j + 1]) = TextOf(src[<<r1 + i, k1 + j>>].value)

C4_Witness ==
    /\ ExportDone
    /\ args.row_end > args.row_start /\ c2 > c1
    /\ \E p \in Pos : InRange(p) /\ wb.sheets[ws].cells[p].value = None
    /\ \E p \in Pos : InRange(p) /\ wb.sheets[ws].cells[p].value = IntVal(7)
    /\ fs0.word.st = "ok"

\* ---- C5
\* the selected table of the source document as a grid of collapsed texts
SourceRows == fs0.word.content.tables[args.table_index + 1].rows
SourceText(i, j) == CollapseSpaces(CellText(SourceRows[i + 1][j + 1]))
LongestRow == CHOOSE m \in 0..(MaxCol + 1) :
                 /\ \E i \in 1..Len(SourceRows) : Len(SourceRows[i]) = m
                 /\ \A i \in 1..Len(SourceRows) : Len(SourceRows[i]) <= m
ExtentRows == Min(Len(SourceRows), args.row_end - args.row_start + 1)
ExtentCols == Min(LongestRow, c2 - c1 + 1)
InExtent(p) ==
    /\ p[1] - args.row_start \in 0..(ExtentRows - 1)
    /\ p[2] - c1 \in 0..(ExtentCols - 1)

\* C5: a successful import copies min(R, N) rows by min(C, M) columns; inside
\* that extent destination cell (r1+i, c1+j) holds table cell (i, j), or the
\* empty text where row i is shorter; no cell of a row past r2 or of a column
\* past c2 is written.
C5_ImportExtent ==
    ImportDone =>
        \A p \in Pos :
            LET i == p[1] - args.row_start
                j == p[2] - c1
            IN /\ InExtent(p) =>
                    SavedCells[p].value =
                        TextVal(IF j < Len(SourceRows[i + 1]) THEN SourceText(i, j) ELSE <<>>)
               /\ (p[1] > args.row_end \/ p[2] > c2) =>
                    SavedCells[p] = OpenedWorkbook.sheets[ws].cells[p]

C5_Witness ==
    /\ ImportDone
    /\ Len(SourceRows) > args.row_end - args.row_start + 1
    /\ LongestRow > c2 - c1 + 1
    /\ args.row_end < MaxRow /\ c2 < MaxCol
    /\ \E p \in Pos : InExtent(p) /\ p[2] - c1 >= Len(SourceRows[p[1] - args.row_start + 1])
    /\ fs0.excel_out.st = "ok"

\* ---- C6
RoundTripDone == ImportDone /\ prev # None
\* text in which every whitespace character is one space between two words
IsCollapsed(x) ==
    \A k \in 1..Len(x) :
        x[k] \in WhiteSpace =>
            /\ x[k] = " "
            /\ k > 1 /\ k < Len(x)
            /\ x[k - 1] \notin WhiteSpace /\ x[k + 1] \notin WhiteSpace
\* the source cell of the export that the import's cell (i, j) comes from
ExportedValue(i, j) ==
    fs.excel.content.sheets[prev.ws].cells[<<prev.args.row_start + i, prev.c1 + j>>].value

\* C6: exporting a range and importing table 0 of the written document into a
\* range of the same dimensions leaves in every destination cell the source
\* text with its whitespace collapsed (same words, single spaces, no space at
\* the ends); a source text already in that form comes back unchanged and an
\* absent cell as the empty text, whatever the destination held before.
C6_RoundTrip ==
    RoundTripDone =>
        \A i \in 0..(args.row_end - args.row_start) :
            \A j \in 0..(c2 - c1) :
                LET src == TextOf(ExportedValue(i, j))
                    dst == SavedCells[<<args.row_start + i, c1 + j>>].value
                IN /\ dst # None /\ dst.t = "str"
                   /\ IsCollapsed(dst.s)
                   /\ Split(dst.s) = Split(src)
                   /\ IsCollapsed(src) => dst.s = src

C6_Witness ==
    /\ RoundTripDone
    /\ args.row_start # prev.args.row_start
    /\ c2 > c1
    /\ fs0.excel_out.st = "ok"
    /\ \E i \in 0..(args.row_end - args.row_start) : \E j \in 0..(c2 - c1) :
          /\ ~IsCollapsed(TextOf(ExportedValue(i, j)))
          /\ SavedCells[<<args.row_start + i, c1 + j>>].value = TextVal(<<"a", " ", "b">>)
    /\ \E i \in 0..(args.row_end - args.row_start) : \E j \in 0..(c2 - c1) :
          ExportedValue(i, j) = None

\* ---- C8
LastOf(l) == IF l = <<>> THEN "" ELSE l[Len(l)]

\* C8: an import whose destination file cannot be opened, or does not exist,
\* goes on with a new empty workbook: the copied cells and the formatting go
\* to its default sheet, the save replaces the file and the exit status is 0.
\* Opening is never what fails the run.
C8_FallbackWorkbook ==
    (prog = "import" /\ fs0.excel_out.st \in {"unreadable", "missing"}) =>
        /\ pc \in {"i_write", "i_format", "i_save"} =>
              /\ wb.sheetnames = <<"Sheet">> /\ ws = "Sheet"
              /\ exit = Running
        /\ (pc = "exit" /\ ~ImportFailsEarly /\ Len(SourceRows) > 0) =>
              \/ LastOf(log) = "save_failed"
              \/ /\ LastOf(log) = "save" /\ exit = 0
                 /\ fs.excel_out.st = "ok"
                 /\ fs.excel_out.content.sheetnames = <<"Sheet">>
                 /\ \A p \in Pos :
                       LET cell == fs.excel_out.content.sheets["Sheet"].cells[p]
                           i == p[1] - args.row_start
                           j == p[2] - c1
                       IN /\ InExtent(p) =>
                               cell = Cell(TextVal(IF j < Len(SourceRows[i + 1])
                                                   THEN SourceText(i, j) ELSE <<>>),
                                           Align, BorderStyle)
                          /\ ~InExtent(p) => cell.value = None
                          /\ InRange(p) => cell.alignment = Align
                          /\ ~InRange(p) => cell = BlankCell

C8_Witness ==
    /\ ImportDone
    /\ fs0.excel_out.st = "unreadable"
    /\ args.sheet = "Data"
    /\ \E p \in Pos : InExtent(p) /\ SavedCells[p].value = TextVal(<<"a", " ", "b", " ", "c">>)

\* ---- C9
AllSheets == {"Sheet", "Data", "Chart1"}
\* the cell at p of sheet n in workbook w; a blank cell where w has no such sheet
CellIn(w, n, p) == IF n \in SheetNames(w) THEN w.sheets[n].cells[p] ELSE BlankCell
\* the workbook a destination file held: an empty one where there is no file
WorkbookOf(f) == IF f.st = "missing" THEN NewWorkbook ELSE f.content

\* C9: a successful import changes the value of no cell outside the copied
\* extent: every other cell of the target range, and every cell outside the
\* range, keeps the value the destination file held before the run; outside
\* the range the formatting is kept too.
C9_FrameOfDestinationFile ==
    ImportDone =>
        \A n \in AllSheets : \A p \in Pos :
            LET before == CellIn(WorkbookOf(fs0.excel_out), n, p)
                after == CellIn(fs.excel_out.content, n, p)
            IN /\ (n # ws \/ ~InExtent(p)) => after.value = before.value
               /\ (n # ws \/ ~InRange(p)) => after = before

\* C9 (amended): the same, with respect to the workbook the run opened: the
\* destination file's when it could be read, a new empty workbook when the
\* file was missing or could not be read.
C9_FrameOfOpenedWorkbook ==
    ImportDone =>
        \A n \in AllSheets : \A p \in Pos :
            LET before == CellIn(OpenedWorkbook, n, p)
                after == CellIn(fs.excel_out.content, n, p)
            IN /\ (n # ws \/ ~InExtent(p)) => after.value = before.value
               /\ (n # ws \/ ~InRange(p)) => after = before

C9_Witness ==
    /\ ImportDone
    /\ fs0.excel_out.st = "ok"
    /\ \E p \in Pos : /\ InRange(p) /\ ~InExtent(p)
                      /\ SavedCells[p].value = TextVal(<<"o", "l", "d">>)
    /\ \E p \in Pos : ~InRange(p) /\ SavedCells[p].value = IntVal(7)
    /\ \E p \in Pos : InExtent(p) /\ fs0.excel_out.content.sheets[ws].cells[p].value # None

\* ---- C10
ExportPhases ==
    <<"exists", "cols", "range", "open_src", "read_src", "open_dst", "write", "save">>
ImportPhases ==
    <<"exists", "cols", "range", "open_src", "read_src", "open_dst", "write", "format",
      "save">>
Saved == \E k \in 1..Len(log) : log[k] \in {"save", "save_failed"}

\* C10: a run that ends with status 0 performed validation, source open, the
\* full read, destination open-or-create, the cell writes and one save, each
\* once and in this order; nothing but the save changes a file, and status 0
\* is not reached unless the save completed and the file holds what was built.
C10_PhaseOrder ==
    /\ ExportDone => log = ExportPhases /\ fs.word = File(doc)
    /\ ImportDone => log = ImportPhases /\ fs.excel_out = File(wb)
    /\ exit = 0 => pc = "exit" /\ LastOf(log) = "save"
    /\ (prog \in {"export", "import"} /\ ~Saved) => fs = fs0
    /\ prog = "export" => fs.excel = fs0.excel /\ fs.excel_out = fs0.excel_out
    /\ prog = "import" => fs.word = fs0.word /\ fs.excel = fs0.excel

C10_Witness ==
    /\ RoundTripDone
    /\ fs0.excel_out.st = "ok"
    /\ fs.excel_out # fs0.excel_out

\* ---- C7
IsDigitToken(t) == t # <<>> /\ \A k \in 1..Len(t) : t[k] \in Range(DigitChars)
IsLetterToken(t) ==
    t # <<>> /\ \A k \in 1..Len(t) : t[k] \in Range(UpperLetters) \cup Range(LowerLetters)
DigitNumber(ch) == IndexOf(DigitChars, ch) - 1
LetterNumber(ch) == IF ch \in Range(UpperLetters) THEN IndexOf(UpperLetters, ch)
                    ELSE IndexOf(LowerLetters, ch)
RECURSIVE Power(_, _)
Power(b, e) == IF e = 0 THEN 1 ELSE b * Power(b, e - 1)
\* the sum of the digits' values times 10^(Len(t) - k) over the positions k..Len(t)
RECURSIVE DecimalFrom(_, _)
DecimalFrom(t, k) ==
    IF k > Len(t) THEN 0
    ELSE DigitNumber(t[k]) * Power(10, Len(t) - k) + DecimalFrom(t, k + 1)
\* the sum of the letters' numbers times 26^(Len(t) - k) over the positions k..Len(t)
RECURSIVE Base26From(_, _)
Base26From(t, k) ==
    IF k > Len(t) THEN 0
    ELSE LetterNumber(t[k]) * Power(26, Len(t) - k) + Base26From(t, k + 1)
DecimalValue(t) == DecimalFrom(t, 1)
Base26Value(t) == Base26From(t, 1)
\* the token without the whitespace at its two ends
Trimmed(t) ==
    LET keep == {k \in 1..Len(t) : t[k] \notin WhiteSpace} IN
    IF keep = {} THEN <<>>
    ELSE SubSeq(t, CHOOSE k \in keep : \A m \in keep : k <= m,
                   CHOOSE k \in keep : \A m \in keep : m <= k)

\* C7: parse_col_arg returns the integer of an all-digit token of value >= 1,
\* fails for an all-digit token of value < 1, returns the base-26 column index
\* of every letter token in any mix of case (A=1, Z=26, AA=27), fails for any
\* other token, and returns only values >= 1.
C7_EveryLetterToken ==
    pc = "returned" =>
        /\ (IsDigitToken(tok) /\ DecimalValue(tok) >= 1) => res = Return(DecimalValue(tok))
        /\ (IsDigitToken(tok) /\ DecimalValue(tok) < 1) => ~res.ok
        /\ IsLetterToken(tok) => res = Return(Base26Value(tok))
        /\ (~IsDigitToken(tok) /\ ~IsLetterToken(tok)) => ~res.ok
        /\ res.ok => res.val >= 1

\* C7 (amended): the same of the token with the whitespace at its ends
\* removed, and with the letter tokens limited to one to three letters; a
\* longer letter token fails like any other token.
C7_TrimmedUpToThreeLetters ==
    pc = "returned" =>
        LET t == Trimmed(tok) IN
        /\ (IsDigitToken(t) /\ DecimalValue(t) >= 1) => res = Return(DecimalValue(t))
        /\ (IsDigitToken(t) /\ DecimalValue(t) < 1) => ~res.ok
        /\ (IsLetterToken(t) /\ Len(t) <= 3) => res = Return(Base26Value(t))
        /\ (~IsDigitToken(t) /\ ~(IsLetterToken(t) /\ Len(t) <= 3)) => ~res.ok
        /\ res.ok => res.val >= 1
        /\ tok = <<"A">> => res = Return(1)
        /\ tok = <<"Z">> => res = Return(26)
        /\ tok \in {<<"A", "A">>, <<"a", "a">>, <<"a", "A">>} => res = Return(27)

C7_Witness ==
    /\ pc = "returned"
    /\ tok = <<" ", "a", "Z", "b">>
    /\ res = Return(26 * 26 + 26 * 26 + 2)

====
